---- MODULE Spec2Model ----
(***************************************************************************)
(* Leader/follower key-value store with semi-synchronous replication       *)
(* (LAB4/server.py).  One leader-role node accepts POST /set, writes the   *)
(* pair into its own store under data_lock and fans the write out to the   *)
(* configured FOLLOWERS through a thread pool; every follower-role node    *)
(* applies POST /replicate to its own store.                               *)
(*                                                                         *)
(* Multithreaded file server (LAB2/multithread.py), a process of its own:  *)
(* every connection gets a handler thread that passes the per-IP rate      *)
(* limiter, then counts the request in an unsynchronized and in a          *)
(* lock-protected counter and serves the path.                             *)
(***************************************************************************)
EXTENDS Integers, FiniteSets, Sequences, TLC

(* ---------------------------- bounds ----------------------------------- *)
NumFollowers == 3       \* follower nodes; length of the FOLLOWERS list under Spec
MaxRequests == 2        \* handler threads for client requests
SoloRequests == 1       \* client requests issued in one behaviour of Spec
PairFollowers == 2      \* length of the FOLLOWERS list under SpecPair
FileHandlers == 3       \* connections to the file server under SpecFile
RateHandlers == 6       \* connections to the file server under SpecRate
MaxTime == 1            \* the last reading of the clock, in seconds

(* ---------------------------- universe --------------------------------- *)
LeaderNode == 0
FollowerNodes == 1 .. NumFollowers
Nodes == {LeaderNode} \cup FollowerNodes
Requests == 1 .. MaxRequests

Keys == {"", "a"}
Values == {"1", "2"}
Absent == "absent"      \* a field the JSON body does not have / a key not in the dict
Bodies == [key : Keys \cup {Absent}, value : Values \cup {Absent}]

NoThread == <<0, 0>>
NoReq == [node |-> LeaderNode, op |-> "none", body |-> [key |-> Absent, value |-> Absent]]
EmptyStore == [k \in Keys |-> Absent]

(* file server *)
RATE_LIMIT == 5
WINDOW_SECONDS == 1
Handlers == 1 .. RateHandlers
ClientIPs == {"10.0.0.1", "10.0.0.2"}
ExistingPaths == {"/f"}                 \* what os.path.exists finds under ROOT_DIR
RequestLines == {"", "GET /f", "GET /none"}
NoCount == -1                           \* a path that is not a key of the counter dict
NoHandler == 0

VARIABLES
    NODE_TYPE,      \* node -> "leader" | "follower"
    WRITE_QUORUM,   \* the leader's quorum threshold
    FOLLOWERS,      \* the addresses the leader replicates to
    unreachable,    \* addresses at which no connection can be made
    data_store,     \* node -> (key -> value or Absent)
    data_lock,      \* node -> the thread inside "with data_lock", or NoThread
    req,            \* request -> what the client sent and to which node
    pc,             \* request -> position of its handler thread
    resp,           \* request -> the response the client got
    success_count,  \* request -> local of replicate_to_followers
    seen,           \* request -> futures as_completed has yielded already
    fut,            \* request -> follower -> state of the pool worker
    rpc,            \* request -> follower -> state of the /replicate call
    request_counts_naive,   \* path -> count, or NoCount
    request_counts_safe,    \* path -> count, or NoCount
    request_counts_lock,    \* the handler inside "with request_counts_lock", or NoHandler
    rate_limits,            \* client ip -> list of timestamps
    now,                    \* what time.time() returns
    files,                  \* the paths that exist under ROOT_DIR
    hpc,                    \* handler -> position of the thread
    hreq,                   \* handler -> client ip and request line
    current_time,           \* handler -> local of is_rate_limited
    temp,                   \* handler -> the count it read (local temp, or the read of "+= 1")
    admissions,             \* client ip -> second -> requests is_rate_limited let pass then
    peers,                  \* the client addresses that connect
    hresp                   \* handler -> status code sent, 0 = nothing sent

\* the state of the file server process
fileVars == <<request_counts_naive, request_counts_safe, request_counts_lock, rate_limits,
              now, files, hpc, hreq, current_time, temp, admissions, peers, hresp>>
\* the state of the key-value cluster
kvVars == <<NODE_TYPE, WRITE_QUORUM, FOLLOWERS, unreachable, data_store, data_lock,
            req, pc, resp, success_count, seen, fut, rpc>>
vars == <<kvVars, fileVars>>
\* what no handler of the key-value server changes: its environment, and the
\* file server, which is another process
config == <<NODE_TYPE, WRITE_QUORUM, FOLLOWERS, unreachable, fileVars>>

(* ---------------------------- responses -------------------------------- *)
NoResp == [code |-> 0, replicas |-> 0, value |-> Absent, data |-> EmptyStore, data_count |-> 0]
Response(code) == [NoResp EXCEPT !.code = code]

(* ---------------------------- pure parts of the handlers --------------- *)
\* variant: only the key field is looked for
MalformedKeyOnly(body) == body.key = Absent

\* "not data or 'key' not in data or 'value' not in data"
Malformed(body) == body.key = Absent \/ body.value = Absent

\* variant: set_value without its role check
SetCheckNoRole(n, body) ==
    IF Malformed(body) THEN 400 ELSE 0

\* variant: set_value looks at the body before it looks at the role
SetCheckBodyFirst(n, body) ==
    IF Malformed(body) THEN 400
    ELSE IF NODE_TYPE[n] # "leader" THEN 403
    ELSE 0

\* status code set_value answers before it touches the store; 0 = goes on
SetCheck(n, body) ==
    IF NODE_TYPE[n] # "leader" THEN 403
    ELSE IF Malformed(body) THEN 400
    ELSE 0

\* variant: replicate without its role check
ReplicateCheckNoRole(n, body) ==
    IF Malformed(body) THEN 400 ELSE 0

\* status code replicate answers before it touches the store; 0 = goes on
ReplicateCheck(n, body) ==
    IF NODE_TYPE[n] # "follower" THEN 403
    ELSE IF Malformed(body) THEN 400
    ELSE 0

\* variant: writing the value a key already has removes the key
PutToggle(store, key, value) ==
    [store EXCEPT ![key] = IF @ = value THEN Absent ELSE value]

\* data_store[key] = value
Put(store, key, value) == [store EXCEPT ![key] = value]

\* len(data_store)
StoreLen(store) == Cardinality({k \in Keys : store[k] # Absent})

\* variant: any HTTP response of the follower address counts as an acknowledgment
AckedAnyResponse(status) == "true"

\* "if response.status_code == 200: return True; return False"
Acked(status) == IF status = "r200" THEN "true" ELSE "false"

\* variant: "success_count > WRITE_QUORUM"
SetResponseStrict(count, value) ==
    IF count > WRITE_QUORUM
    THEN [NoResp EXCEPT !.code = 200, !.replicas = count, !.value = value]
    ELSE [NoResp EXCEPT !.code = 500, !.replicas = count]

\* variant: a quorum larger than the FOLLOWERS list is read as the whole list
SetResponseCapped(count, value) ==
    IF count >= WRITE_QUORUM \/ count >= Cardinality(FOLLOWERS)
    THEN [NoResp EXCEPT !.code = 200, !.replicas = count, !.value = value]
    ELSE [NoResp EXCEPT !.code = 500, !.replicas = count]

\* the response set_value builds from the count replicate_to_followers returned
SetResponse(count, value) ==
    IF count >= WRITE_QUORUM
    THEN [NoResp EXCEPT !.code = 200, !.replicas = count, !.value = value]
    ELSE [NoResp EXCEPT !.code = 500, !.replicas = count]

\* variant: the lookup answers 200 with whatever the store has under the key
GetResponseDefault(store, key) ==
    [NoResp EXCEPT !.code = 200, !.value = store[key]]

\* the response get_value builds from the store
GetResponse(store, key) ==
    IF store[key] # Absent
    THEN [NoResp EXCEPT !.code = 200, !.value = store[key]]
    ELSE Response(404)

\* the response status builds from len(data_store) and dict(data_store)
StatusResponse(count, store) ==
    [NoResp EXCEPT !.code = 200, !.data_count = count, !.data = store]

Finished(status) == status \in {"true", "false"}

(* ---------------------------- initial state ---------------------------- *)
\* the file server after start: empty dicts, free lock, clock at 0, the first
\* connections of the run not yet accepted
InitFileServer(existing, addresses, connections) ==
    /\ request_counts_naive = [p \in ExistingPaths |-> NoCount]
    /\ request_counts_safe = [p \in ExistingPaths |-> NoCount]
    /\ request_counts_lock = NoHandler
    /\ rate_limits = [ip \in ClientIPs |-> <<>>]
    /\ now = 0
    /\ files = existing
    /\ hpc = [h \in Handlers |-> IF h <= connections THEN "idle" ELSE "unused"]
    /\ hreq = [h \in Handlers |-> [ip |-> "", line |-> ""]]
    /\ current_time = [h \in Handlers |-> 0]
    /\ temp = [h \in Handlers |-> 0]
    /\ admissions = [ip \in ClientIPs |-> [t \in 0 .. MaxTime |-> 0]]
    /\ peers = addresses
    /\ hresp = [h \in Handlers |-> 0]

\* what every node starts with: an empty store, a free lock, no request
InitStores ==
    /\ data_store = [n \in Nodes |-> EmptyStore]
    /\ data_lock = [n \in Nodes |-> NoThread]
    /\ req = [r \in Requests |-> NoReq]
    /\ resp = [r \in Requests |-> NoResp]
    /\ success_count = [r \in Requests |-> 0]
    /\ seen = [r \in Requests |-> {}]
    /\ fut = [r \in Requests |-> [f \in FollowerNodes |-> "none"]]
    /\ rpc = [r \in Requests |-> [f \in FollowerNodes |-> "none"]]

\* the cluster at start, beside a file server nobody connects to
InitNodes == InitStores /\ InitFileServer(ExistingPaths, ClientIPs, 0)

\* the environment: one leader, the FOLLOWERS list, a quorum, any set of dead addresses
InitConfig(followers, quorums, clients) ==
    /\ NODE_TYPE = [n \in Nodes |-> IF n = LeaderNode THEN "leader" ELSE "follower"]
    /\ WRITE_QUORUM \in quorums
    /\ FOLLOWERS = followers
    /\ unreachable \in SUBSET followers
    /\ pc = [r \in Requests |-> IF r <= clients THEN "idle" ELSE "unused"]

\* one client request, three followers, WRITE_QUORUM anything from 0 to N + 1
\* (the value of the environment variable is not checked against the list)
Init == InitConfig(FollowerNodes, 0 .. NumFollowers + 1, SoloRequests) /\ InitNodes

\* two client requests, two followers, WRITE_QUORUM in the documented range 1 .. N
InitPair == InitConfig(1 .. PairFollowers, 1 .. PairFollowers, MaxRequests) /\ InitNodes

\* a deployment in which any follower address may be served by a process started
\* with NODE_TYPE=leader; one client request, three addresses in FOLLOWERS
InitRoles ==
    /\ NODE_TYPE \in {nt \in [Nodes -> {"leader", "follower"}] : nt[LeaderNode] = "leader"}
    /\ WRITE_QUORUM \in 1 .. NumFollowers
    /\ FOLLOWERS = FollowerNodes
    /\ unreachable \in SUBSET FollowerNodes
    /\ pc = [r \in Requests |-> IF r <= SoloRequests THEN "idle" ELSE "unused"]
    /\ InitNodes

\* a client's next request takes the next free handler thread
CanStart(r) == pc[r] = "idle" /\ (IF r = 1 THEN TRUE ELSE pc[r - 1] # "idle")

\* the nodes a client can address
Cluster == {LeaderNode} \cup FOLLOWERS

(* ---------------------------- POST /set -------------------------------- *)
\* variant: the futures are submitted before the leader's own write
SetBeginDispatch(r) ==
    /\ CanStart(r)
    /\ \E n \in Cluster, body \in Bodies :
        /\ req' = [req EXCEPT ![r] = [node |-> n, op |-> "set", body |-> body]]
        /\ IF SetCheck(n, body) # 0
           THEN /\ resp' = [resp EXCEPT ![r] = Response(SetCheck(n, body))]
                /\ pc' = [pc EXCEPT ![r] = "done"]
                /\ UNCHANGED <<data_lock, fut>>
           ELSE /\ data_lock[n] = NoThread
                /\ data_lock' = [data_lock EXCEPT ![n] = <<r, 0>>]
                /\ pc' = [pc EXCEPT ![r] = "set_locked"]
                /\ fut' = [fut EXCEPT ![r] = [f \in FollowerNodes |->
                                                 IF f \in FOLLOWERS THEN "sleep" ELSE @[f]]]
                /\ UNCHANGED resp
    /\ UNCHANGED <<config, data_store, success_count, seen, rpc>>

\* role check, body check, then "with data_lock:"
SetBegin(r) ==
    /\ CanStart(r)
    /\ \E n \in Cluster, body \in Bodies :
        /\ req' = [req EXCEPT ![r] = [node |-> n, op |-> "set", body |-> body]]
        /\ IF SetCheck(n, body) # 0
           THEN /\ resp' = [resp EXCEPT ![r] = Response(SetCheck(n, body))]
                /\ pc' = [pc EXCEPT ![r] = "done"]
                /\ UNCHANGED data_lock
           ELSE /\ data_lock[n] = NoThread
                /\ data_lock' = [data_lock EXCEPT ![n] = <<r, 0>>]
                /\ pc' = [pc EXCEPT ![r] = "set_locked"]
                /\ UNCHANGED resp
    /\ UNCHANGED <<config, data_store, success_count, seen, fut, rpc>>

\* variant: the store is replaced by a dict holding only the new pair
SetWriteClobber(r) ==
    /\ pc[r] = "set_locked"
    /\ data_store' = [data_store EXCEPT ![req[r].node] =
                         Put(EmptyStore, req[r].body.key, req[r].body.value)]
    /\ data_lock' = [data_lock EXCEPT ![req[r].node] = NoThread]
    /\ pc' = [pc EXCEPT ![r] = "set_written"]
    /\ UNCHANGED <<config, req, resp, success_count, seen, fut, rpc>>

\* variant: the with block of set_value also encloses the call of replicate_to_followers
SetWriteHold(r) ==
    /\ pc[r] = "set_locked"
    /\ data_store' = [data_store EXCEPT ![req[r].node] =
                         Put(@, req[r].body.key, req[r].body.value)]
    /\ pc' = [pc EXCEPT ![r] = "set_written"]
    /\ UNCHANGED <<config, data_lock, req, resp, success_count, seen, fut, rpc>>

\* "data_store[key] = value", leaving the with block
SetWrite(r) ==
    /\ pc[r] = "set_locked"
    /\ data_store' = [data_store EXCEPT ![req[r].node] =
                         Put(@, req[r].body.key, req[r].body.value)]
    /\ data_lock' = [data_lock EXCEPT ![req[r].node] = NoThread]
    /\ pc' = [pc EXCEPT ![r] = "set_written"]
    /\ UNCHANGED <<config, req, resp, success_count, seen, fut, rpc>>

\* replicate_to_followers: success_count = 0, one executor.submit per follower
Dispatch(r) ==
    /\ pc[r] = "set_written"
    /\ success_count' = [success_count EXCEPT ![r] = 0]
    /\ fut' = [fut EXCEPT ![r] = [f \in FollowerNodes |->
                                     IF f \in FOLLOWERS THEN "sleep" ELSE @[f]]]
    /\ pc' = [pc EXCEPT ![r] = "collect"]
    /\ UNCHANGED <<config, data_store, data_lock, req, resp, seen, rpc>>

\* variant: every completed future is counted, whatever its result
CollectAny(r, f) ==
    /\ pc[r] = "collect"
    /\ f \in FOLLOWERS \ seen[r]
    /\ Finished(fut[r][f])
    /\ seen' = [seen EXCEPT ![r] = @ \cup {f}]
    /\ LET count == success_count[r] + 1
           break == count >= WRITE_QUORUM
       IN /\ success_count' = [success_count EXCEPT ![r] = count]
          /\ pc' = [pc EXCEPT ![r] =
                       IF break \/ seen'[r] = FOLLOWERS THEN "shutdown" ELSE "collect"]
    /\ UNCHANGED <<config, data_store, data_lock, req, resp, fut, rpc>>

\* variant: the break cancels the workers that have not posted yet
CollectCancel(r, f) ==
    /\ pc[r] = "collect"
    /\ f \in FOLLOWERS \ seen[r]
    /\ Finished(fut[r][f])
    /\ seen' = [seen EXCEPT ![r] = @ \cup {f}]
    /\ LET count == IF fut[r][f] = "true" THEN success_count[r] + 1 ELSE success_count[r]
           break == fut[r][f] = "true" /\ count >= WRITE_QUORUM
       IN /\ success_count' = [success_count EXCEPT ![r] = count]
          /\ pc' = [pc EXCEPT ![r] =
                       IF break \/ seen'[r] = FOLLOWERS THEN "shutdown" ELSE "collect"]
          /\ fut' = [fut EXCEPT ![r] = [g \in FollowerNodes |->
                         IF break /\ @[g] = "sleep" THEN "false" ELSE @[g]]]
    /\ UNCHANGED <<config, data_store, data_lock, req, resp, rpc>>

\* variant: the loop has no break and counts every acknowledgment
CollectNoBreak(r, f) ==
    /\ pc[r] = "collect"
    /\ f \in FOLLOWERS \ seen[r]
    /\ Finished(fut[r][f])
    /\ seen' = [seen EXCEPT ![r] = @ \cup {f}]
    /\ success_count' = [success_count EXCEPT ![r] =
                            IF fut[r][f] = "true" THEN @ + 1 ELSE @]
    /\ pc' = [pc EXCEPT ![r] = IF seen'[r] = FOLLOWERS THEN "shutdown" ELSE "collect"]
    /\ UNCHANGED <<config, data_store, data_lock, req, resp, fut, rpc>>

\* variant: the first failed attempt the loop sees ends the loop
CollectStopOnFailure(r, f) ==
    /\ pc[r] = "collect"
    /\ f \in FOLLOWERS \ seen[r]
    /\ Finished(fut[r][f])
    /\ seen' = [seen EXCEPT ![r] = @ \cup {f}]
    /\ LET count == IF fut[r][f] = "true" THEN success_count[r] + 1 ELSE success_count[r]
           break == fut[r][f] = "false" \/ count >= WRITE_QUORUM
       IN /\ success_count' = [success_count EXCEPT ![r] = count]
          /\ pc' = [pc EXCEPT ![r] =
                       IF break \/ seen'[r] = FOLLOWERS THEN "shutdown" ELSE "collect"]
    /\ UNCHANGED <<config, data_store, data_lock, req, resp, fut, rpc>>

\* variant: the loop waits for acknowledgments only and never sees a failed attempt
CollectAcksOnly(r, f) ==
    /\ pc[r] = "collect"
    /\ f \in FOLLOWERS \ seen[r]
    /\ fut[r][f] = "true"
    /\ seen' = [seen EXCEPT ![r] = @ \cup {f}]
    /\ LET count == success_count[r] + 1
           break == count >= WRITE_QUORUM
       IN /\ success_count' = [success_count EXCEPT ![r] = count]
          /\ pc' = [pc EXCEPT ![r] =
                       IF break \/ seen'[r] = FOLLOWERS THEN "shutdown" ELSE "collect"]
    /\ UNCHANGED <<config, data_store, data_lock, req, resp, fut, rpc>>

\* one iteration of "for future in as_completed(futures)"
Collect(r, f) ==
    /\ pc[r] = "collect"
    /\ f \in FOLLOWERS \ seen[r]
    /\ Finished(fut[r][f])
    /\ seen' = [seen EXCEPT ![r] = @ \cup {f}]
    /\ LET count == IF fut[r][f] = "true" THEN success_count[r] + 1 ELSE success_count[r]
           break == fut[r][f] = "true" /\ count >= WRITE_QUORUM
       IN /\ success_count' = [success_count EXCEPT ![r] = count]
          /\ pc' = [pc EXCEPT ![r] =
                       IF break \/ seen'[r] = FOLLOWERS THEN "shutdown" ELSE "collect"]
    /\ UNCHANGED <<config, data_store, data_lock, req, resp, fut, rpc>>

\* variant: the executor is left without joining its workers
SetRespondNoJoin(r) ==
    /\ pc[r] = "shutdown"
    /\ resp' = [resp EXCEPT ![r] = SetResponse(success_count[r], req[r].body.value)]
    /\ pc' = [pc EXCEPT ![r] = "done"]
    /\ UNCHANGED <<config, data_store, data_lock, req, success_count, seen, fut, rpc>>

\* variant: a quorum failure removes the key from the leader's store again
SetRespondRollback(r) ==
    /\ pc[r] = "shutdown"
    /\ \A f \in FOLLOWERS : Finished(fut[r][f])
    /\ resp' = [resp EXCEPT ![r] = SetResponse(success_count[r], req[r].body.value)]
    /\ data_store' = IF success_count[r] >= WRITE_QUORUM THEN data_store
                     ELSE [data_store EXCEPT ![req[r].node] = Put(@, req[r].body.key, Absent)]
    /\ pc' = [pc EXCEPT ![r] = "done"]
    /\ UNCHANGED <<config, data_lock, req, success_count, seen, fut, rpc>>

\* variant: a leader that misses its quorum steps down
SetRespondDemote(r) ==
    /\ pc[r] = "shutdown"
    /\ \A f \in FOLLOWERS : Finished(fut[r][f])
    /\ resp' = [resp EXCEPT ![r] = SetResponse(success_count[r], req[r].body.value)]
    /\ NODE_TYPE' = IF success_count[r] >= WRITE_QUORUM THEN NODE_TYPE
                    ELSE [NODE_TYPE EXCEPT ![req[r].node] = "follower"]
    /\ pc' = [pc EXCEPT ![r] = "done"]
    /\ UNCHANGED <<WRITE_QUORUM, FOLLOWERS, unreachable, fileVars, data_store, data_lock,
                   req, success_count, seen, fut, rpc>>

\* leaving "with ThreadPoolExecutor(...)" joins every worker; then set_value answers
SetRespond(r) ==
    /\ pc[r] = "shutdown"
    /\ \A f \in FOLLOWERS : Finished(fut[r][f])
    /\ resp' = [resp EXCEPT ![r] = SetResponse(success_count[r], req[r].body.value)]
    /\ pc' = [pc EXCEPT ![r] = "done"]
    /\ UNCHANGED <<config, data_store, data_lock, req, success_count, seen, fut, rpc>>

(* ---------------------------- pool workers ----------------------------- *)
\* variant: a connection error ends the other workers of the batch too
PostAbort(r, f) ==
    /\ fut[r][f] = "sleep"
    /\ IF f \in unreachable
       THEN /\ fut' = [fut EXCEPT ![r] = [g \in FollowerNodes |->
                           IF g = f \/ @[g] = "sleep" THEN "false" ELSE @[g]]]
            /\ UNCHANGED rpc
       ELSE /\ fut' = [fut EXCEPT ![r][f] = "wait"]
            /\ rpc' = [rpc EXCEPT ![r][f] = "req"]
    /\ UNCHANGED <<config, data_store, data_lock, req, pc, resp, success_count, seen>>

\* replicate_to_one_follower: the sleep is over, requests.post is issued
Post(r, f) ==
    /\ fut[r][f] = "sleep"
    /\ IF f \in unreachable
       THEN /\ fut' = [fut EXCEPT ![r][f] = "false"]
            /\ UNCHANGED rpc
       ELSE /\ fut' = [fut EXCEPT ![r][f] = "wait"]
            /\ rpc' = [rpc EXCEPT ![r][f] = "req"]
    /\ UNCHANGED <<config, data_store, data_lock, req, pc, resp, success_count, seen>>

\* requests.post returns the follower's response
Receive(r, f) ==
    /\ fut[r][f] = "wait"
    /\ rpc[r][f] \in {"r200", "r400", "r403"}
    /\ fut' = [fut EXCEPT ![r][f] = Acked(rpc[r][f])]
    /\ UNCHANGED <<config, data_store, data_lock, req, pc, resp, success_count, seen, rpc>>

\* variant: a timed-out attempt is made again
TimeoutRetry(r, f) ==
    /\ fut[r][f] = "wait"
    /\ fut' = [fut EXCEPT ![r][f] = "sleep"]
    /\ UNCHANGED <<config, data_store, data_lock, req, pc, resp, success_count, seen, rpc>>

\* requests.post raises after timeout=5; "except Exception: return False"
Timeout(r, f) ==
    /\ fut[r][f] = "wait"
    /\ fut' = [fut EXCEPT ![r][f] = "false"]
    /\ UNCHANGED <<config, data_store, data_lock, req, pc, resp, success_count, seen, rpc>>

(* ---------------------------- POST /replicate from the leader ---------- *)
\* the node at the follower address runs replicate(): checks, then "with data_lock:"
RpcBegin(r, f) ==
    /\ rpc[r][f] = "req"
    /\ LET code == ReplicateCheck(f, req[r].body)
       IN IF code # 0
          THEN /\ rpc' = [rpc EXCEPT ![r][f] = IF code = 403 THEN "r403" ELSE "r400"]
               /\ UNCHANGED data_lock
          ELSE /\ data_lock[f] = NoThread
               /\ data_lock' = [data_lock EXCEPT ![f] = <<r, f>>]
               /\ rpc' = [rpc EXCEPT ![r][f] = "locked"]
    /\ UNCHANGED <<config, data_store, req, pc, resp, success_count, seen, fut>>

\* variant: the follower's store is replaced by a dict holding only the new pair
RpcWriteReplace(r, f) ==
    /\ rpc[r][f] = "locked"
    /\ data_store' = [data_store EXCEPT ![f] =
                         Put(EmptyStore, req[r].body.key, req[r].body.value)]
    /\ data_lock' = [data_lock EXCEPT ![f] = NoThread]
    /\ rpc' = [rpc EXCEPT ![r][f] = "r200"]
    /\ UNCHANGED <<config, req, pc, resp, success_count, seen, fut>>

\* variant: the follower answers 200 without writing the pair
RpcWriteNoStore(r, f) ==
    /\ rpc[r][f] = "locked"
    /\ data_lock' = [data_lock EXCEPT ![f] = NoThread]
    /\ rpc' = [rpc EXCEPT ![r][f] = "r200"]
    /\ UNCHANGED <<config, data_store, req, pc, resp, success_count, seen, fut>>

\* "data_store[key] = value", leaving the with block, answering 200
RpcWrite(r, f) ==
    /\ rpc[r][f] = "locked"
    /\ data_store' = [data_store EXCEPT ![f] = Put(@, req[r].body.key, req[r].body.value)]
    /\ data_lock' = [data_lock EXCEPT ![f] = NoThread]
    /\ rpc' = [rpc EXCEPT ![r][f] = "r200"]
    /\ UNCHANGED <<config, req, pc, resp, success_count, seen, fut>>

(* ---------------------------- POST /replicate from a client ------------ *)
ReplicateBegin(r) ==
    /\ CanStart(r)
    /\ \E n \in Cluster, body \in Bodies :
        /\ req' = [req EXCEPT ![r] = [node |-> n, op |-> "replicate", body |-> body]]
        /\ IF ReplicateCheck(n, body) # 0
           THEN /\ resp' = [resp EXCEPT ![r] = Response(ReplicateCheck(n, body))]
                /\ pc' = [pc EXCEPT ![r] = "done"]
                /\ UNCHANGED data_lock
           ELSE /\ data_lock[n] = NoThread
                /\ data_lock' = [data_lock EXCEPT ![n] = <<r, 0>>]
                /\ pc' = [pc EXCEPT ![r] = "replicate_locked"]
                /\ UNCHANGED resp
    /\ UNCHANGED <<config, data_store, success_count, seen, fut, rpc>>

\* variant: a follower that applied a /replicate passes it on to the other followers
ReplicateWriteRelay(r) ==
    /\ pc[r] = "replicate_locked"
    /\ data_store' = [data_store EXCEPT ![req[r].node] =
                         Put(@, req[r].body.key, req[r].body.value)]
    /\ data_lock' = [data_lock EXCEPT ![req[r].node] = NoThread]
    /\ resp' = [resp EXCEPT ![r] = Response(200)]
    /\ fut' = [fut EXCEPT ![r] = [f \in FollowerNodes |->
                  IF f \in FOLLOWERS \ {req[r].node} THEN "sleep" ELSE @[f]]]
    /\ pc' = [pc EXCEPT ![r] = "done"]
    /\ UNCHANGED <<config, req, success_count, seen, rpc>>

\* "data_store[key] = value" in replicate, leaving the with block, answering 200

ReplicateWrite(r) ==
    /\ pc[r] = "replicate_locked"
    /\ data_store' = [data_store EXCEPT ![req[r].node] =
                         Put(@, req[r].body.key, req[r].body.value)]
    /\ data_lock' = [data_lock EXCEPT ![req[r].node] = NoThread]
    /\ resp' = [resp EXCEPT ![r] = Response(200)]
    /\ pc' = [pc EXCEPT ![r] = "done"]
    /\ UNCHANGED <<config, req, success_count, seen, fut, rpc>>

(* ---------------------------- GET /get/<key> and GET /status ----------- *)
\* the <path:key> converter matches one character or more
GetBegin(r) ==
    /\ CanStart(r)
    /\ \E n \in Cluster, key \in Keys \ {""} :
        /\ data_lock[n] = NoThread
        /\ req' = [req EXCEPT ![r] = [node |-> n, op |-> "get",
                                      body |-> [key |-> key, value |-> Absent]]]
        /\ data_lock' = [data_lock EXCEPT ![n] = <<r, 0>>]
    /\ pc' = [pc EXCEPT ![r] = "get_locked"]
    /\ UNCHANGED <<config, data_store, resp, success_count, seen, fut, rpc>>

\* variant: a follower answers a read from the leader's store
GetReadForward(r) ==
    /\ pc[r] = "get_locked"
    /\ resp' = [resp EXCEPT ![r] = GetResponse(data_store[LeaderNode], req[r].body.key)]
    /\ data_lock' = [data_lock EXCEPT ![req[r].node] = NoThread]
    /\ pc' = [pc EXCEPT ![r] = "done"]
    /\ UNCHANGED <<config, data_store, req, success_count, seen, fut, rpc>>

\* the lookup and the response, inside "with data_lock"
GetRead(r) ==
    /\ pc[r] = "get_locked"
    /\ resp' = [resp EXCEPT ![r] = GetResponse(data_store[req[r].node], req[r].body.key)]
    /\ data_lock' = [data_lock EXCEPT ![req[r].node] = NoThread]
    /\ pc' = [pc EXCEPT ![r] = "done"]
    /\ UNCHANGED <<config, data_store, req, success_count, seen, fut, rpc>>

\* variant: status reads the store without taking data_lock
StatusBeginNoLock(r) ==
    /\ CanStart(r)
    /\ \E n \in Cluster :
        req' = [req EXCEPT ![r] = [node |-> n, op |-> "status",
                                   body |-> [key |-> Absent, value |-> Absent]]]
    /\ pc' = [pc EXCEPT ![r] = "status_locked"]
    /\ UNCHANGED <<config, data_store, data_lock, resp, success_count, seen, fut, rpc>>

\* status: "with data_lock:"
StatusBegin(r) ==
    /\ CanStart(r)
    /\ \E n \in Cluster :
        /\ data_lock[n] = NoThread
        /\ req' = [req EXCEPT ![r] = [node |-> n, op |-> "status",
                                      body |-> [key |-> Absent, value |-> Absent]]]
        /\ data_lock' = [data_lock EXCEPT ![n] = <<r, 0>>]
    /\ pc' = [pc EXCEPT ![r] = "status_locked"]
    /\ UNCHANGED <<config, data_store, resp, success_count, seen, fut, rpc>>

\* 'data_count': len(data_store), the first read of the store
StatusCount(r) ==
    /\ pc[r] = "status_locked"
    /\ resp' = [resp EXCEPT ![r].data_count = StoreLen(data_store[req[r].node])]
    /\ pc' = [pc EXCEPT ![r] = "status_counted"]
    /\ UNCHANGED <<config, data_store, data_lock, req, success_count, seen, fut, rpc>>

\* 'data': dict(data_store), the second read; the answer leaves the with block
StatusRead(r) ==
    /\ pc[r] = "status_counted"
    /\ resp' = [resp EXCEPT ![r] = StatusResponse(resp[r].data_count, data_store[req[r].node])]
    /\ data_lock' = [data_lock EXCEPT ![req[r].node] = NoThread]
    /\ pc' = [pc EXCEPT ![r] = "done"]
    /\ UNCHANGED <<config, data_store, req, success_count, seen, fut, rpc>>

(* ---------------------------- specification ---------------------------- *)
Next ==
    \/ \E r \in Requests : SetBegin(r)
    \/ \E r \in Requests : SetWrite(r)
    \/ \E r \in Requests : Dispatch(r)
    \/ \E r \in Requests, f \in FollowerNodes : Collect(r, f)
    \/ \E r \in Requests : SetRespond(r)
    \/ \E r \in Requests, f \in FollowerNodes : Post(r, f)
    \/ \E r \in Requests, f \in FollowerNodes : Receive(r, f)
    \/ \E r \in Requests, f \in FollowerNodes : Timeout(r, f)
    \/ \E r \in Requests, f \in FollowerNodes : RpcBegin(r, f)
    \/ \E r \in Requests, f \in FollowerNodes : RpcWrite(r, f)
    \/ \E r \in Requests : ReplicateBegin(r)
    \/ \E r \in Requests : ReplicateWrite(r)
    \/ \E r \in Requests : GetBegin(r)
    \/ \E r \in Requests : GetRead(r)
    \/ \E r \in Requests : StatusBegin(r)
    \/ \E r \in Requests : StatusCount(r)
    \/ \E r \in Requests : StatusRead(r)

Spec == Init /\ [][Next]_vars

SpecPair == InitPair /\ [][Next]_vars

\* every started thread keeps running: handlers, pool workers and the followers'
\* handlers take their next step; only clients and timeouts are free not to happen
Fairness ==
    /\ \A r \in Requests :
          /\ WF_vars(SetWrite(r)) /\ WF_vars(Dispatch(r)) /\ WF_vars(SetRespond(r))
          /\ WF_vars(ReplicateWrite(r)) /\ WF_vars(GetRead(r))
          /\ WF_vars(StatusCount(r)) /\ WF_vars(StatusRead(r))
    /\ \A r \in Requests : \A f \in FollowerNodes :
          /\ WF_vars(Collect(r, f)) /\ WF_vars(Post(r, f)) /\ WF_vars(Receive(r, f))
          /\ WF_vars(RpcBegin(r, f)) /\ WF_vars(RpcWrite(r, f))

SpecLive == Init /\ [][Next]_vars /\ Fairness

SpecRoles == InitRoles /\ [][Next]_vars

(* ---------------------------- file server: handle_request -------------- *)
\* the path of the request line, "parts[1]"; Absent when there is no request line
PathOf(line) ==
    IF line = "GET /f" THEN "/f"
    ELSE IF line = "GET /none" THEN "/none"
    ELSE Absent

\* rate_limits[client_ip] without the timestamps that left the window
Recent(stamps, t) ==
    LET InWindow(ts) == t - ts < WINDOW_SECONDS
    IN SelectSeq(stamps, InWindow)

\* connections are accepted one after the other, each by a thread of its own
CanAccept(h) == hpc[h] = "idle" /\ (IF h = 1 THEN TRUE ELSE hpc[h - 1] # "idle")

\* the thread starts and is_rate_limited reads the clock, before it takes rate_lock
Accept(h) ==
    /\ CanAccept(h)
    /\ \E ip \in peers : hreq' = [hreq EXCEPT ![h] = [ip |-> ip, line |-> ""]]
    /\ current_time' = [current_time EXCEPT ![h] = now]
    /\ hpc' = [hpc EXCEPT ![h] = "timed"]
    /\ UNCHANGED <<kvVars, request_counts_naive, request_counts_safe, request_counts_lock,
                   rate_limits, now, files, temp, admissions, peers, hresp>>

\* the body of "with rate_lock": drop old timestamps, then refuse (429 is sent and
\* the handler returns) or append current_time; the local ends with the call
RateCheck(h) ==
    /\ hpc[h] = "timed"
    /\ LET ip == hreq[h].ip
           kept == Recent(rate_limits[ip], current_time[h])
       IN IF Len(kept) >= RATE_LIMIT
          THEN /\ rate_limits' = [rate_limits EXCEPT ![ip] = kept]
               /\ hresp' = [hresp EXCEPT ![h] = 429]
               /\ hpc' = [hpc EXCEPT ![h] = "done"]
               /\ UNCHANGED admissions
          ELSE /\ rate_limits' = [rate_limits EXCEPT ![ip] = Append(kept, current_time[h])]
               /\ admissions' = [admissions EXCEPT ![ip][now] = @ + 1]
               /\ hpc' = [hpc EXCEPT ![h] = "admitted"]
               /\ UNCHANGED hresp
    /\ current_time' = [current_time EXCEPT ![h] = 0]
    /\ UNCHANGED <<kvVars, request_counts_naive, request_counts_safe, request_counts_lock,
                   now, files, hreq, temp, peers>>

\* conn.recv and the request line; an empty request ends the handler, a path that
\* does not exist is answered 404 after the simulated work, an existing one is counted
Recv(h) ==
    /\ hpc[h] = "admitted"
    /\ \E line \in RequestLines :
        /\ hreq' = [hreq EXCEPT ![h].line = line]
        /\ hpc' = [hpc EXCEPT ![h] =
                      IF PathOf(line) \in files THEN "naive_check" ELSE "done"]
        /\ hresp' = [hresp EXCEPT ![h] =
                      IF PathOf(line) = Absent \/ PathOf(line) \in files THEN @ ELSE 404]
    /\ UNCHANGED <<kvVars, request_counts_naive, request_counts_safe, request_counts_lock,
                   rate_limits, now, files, current_time, temp, admissions, peers>>

\* "if fs_path not in request_counts_naive"
NaiveCheck(h) ==
    /\ hpc[h] = "naive_check"
    /\ hpc' = [hpc EXCEPT ![h] =
                  IF request_counts_naive[PathOf(hreq[h].line)] = NoCount
                  THEN "naive_init" ELSE "naive_read"]
    /\ UNCHANGED <<kvVars, request_counts_naive, request_counts_safe, request_counts_lock,
                   rate_limits, now, files, hreq, current_time, temp, admissions, peers, hresp>>

\* variant: a new path starts its naive count at 1
NaiveInitOne(h) ==
    /\ hpc[h] = "naive_init"
    /\ request_counts_naive' = [request_counts_naive EXCEPT ![PathOf(hreq[h].line)] = 1]
    /\ hpc' = [hpc EXCEPT ![h] = "naive_read"]
    /\ UNCHANGED <<kvVars, request_counts_safe, request_counts_lock,
                   rate_limits, now, files, hreq, current_time, temp, admissions, peers, hresp>>

\* "request_counts_naive[fs_path] = 0"
NaiveInit(h) ==
    /\ hpc[h] = "naive_init"
    /\ request_counts_naive' = [request_counts_naive EXCEPT ![PathOf(hreq[h].line)] = 0]
    /\ hpc' = [hpc EXCEPT ![h] = "naive_read"]
    /\ UNCHANGED <<kvVars, request_counts_safe, request_counts_lock,
                   rate_limits, now, files, hreq, current_time, temp, admissions, peers, hresp>>

\* "temp = request_counts_naive[fs_path]", then the thread sleeps
NaiveRead(h) ==
    /\ hpc[h] = "naive_read"
    /\ temp' = [temp EXCEPT ![h] = request_counts_naive[PathOf(hreq[h].line)]]
    /\ hpc' = [hpc EXCEPT ![h] = "naive_sleep"]
    /\ UNCHANGED <<kvVars, request_counts_naive, request_counts_safe, request_counts_lock,
                   rate_limits, now, files, hreq, current_time, admissions, peers, hresp>>

\* "request_counts_naive[fs_path] = temp + 1"
NaiveWrite(h) ==
    /\ hpc[h] = "naive_sleep"
    /\ request_counts_naive' = [request_counts_naive EXCEPT
                                   ![PathOf(hreq[h].line)] = temp[h] + 1]
    /\ hpc' = [hpc EXCEPT ![h] = "safe_wait"]
    /\ UNCHANGED <<kvVars, request_counts_safe, request_counts_lock,
                   rate_limits, now, files, hreq, current_time, temp, admissions, peers, hresp>>

\* variant: the safe counter is updated without request_counts_lock
SafeBeginNoLock(h) ==
    /\ hpc[h] = "safe_wait"
    /\ hpc' = [hpc EXCEPT ![h] = "safe_locked"]
    /\ UNCHANGED <<kvVars, request_counts_naive, request_counts_safe, request_counts_lock,
                   rate_limits, now, files, hreq, current_time, temp, admissions, peers, hresp>>

\* "with request_counts_lock:"
SafeBegin(h) ==
    /\ hpc[h] = "safe_wait"
    /\ request_counts_lock = NoHandler
    /\ request_counts_lock' = h
    /\ hpc' = [hpc EXCEPT ![h] = "safe_locked"]
    /\ UNCHANGED <<kvVars, request_counts_naive, request_counts_safe,
                   rate_limits, now, files, hreq, current_time, temp, admissions, peers, hresp>>

\* "if fs_path not in request_counts_safe: ... = 0" and the read of "+= 1"
SafeRead(h) ==
    /\ hpc[h] = "safe_locked"
    /\ LET p == PathOf(hreq[h].line)
           count == IF request_counts_safe[p] = NoCount THEN 0 ELSE request_counts_safe[p]
       IN /\ request_counts_safe' = [request_counts_safe EXCEPT ![p] = count]
          /\ temp' = [temp EXCEPT ![h] = count]
    /\ hpc' = [hpc EXCEPT ![h] = "safe_read"]
    /\ UNCHANGED <<kvVars, request_counts_naive, request_counts_lock,
                   rate_limits, now, files, hreq, current_time, admissions, peers, hresp>>

\* the write of "request_counts_safe[fs_path] += 1", leaving the with block
SafeWrite(h) ==
    /\ hpc[h] = "safe_read"
    /\ request_counts_safe' = [request_counts_safe EXCEPT
                                  ![PathOf(hreq[h].line)] = temp[h] + 1]
    /\ request_counts_lock' = NoHandler
    /\ hpc' = [hpc EXCEPT ![h] = "serve"]
    /\ UNCHANGED <<kvVars, request_counts_naive,
                   rate_limits, now, files, hreq, current_time, temp, admissions, peers, hresp>>

\* the directory listing or the file is sent with 200
Serve(h) ==
    /\ hpc[h] = "serve"
    /\ hresp' = [hresp EXCEPT ![h] = 200]
    /\ hpc' = [hpc EXCEPT ![h] = "done"]
    /\ UNCHANGED <<kvVars, request_counts_naive, request_counts_safe, request_counts_lock,
                   rate_limits, now, files, hreq, current_time, temp, admissions, peers>>

\* a second passes
Tick ==
    /\ now < MaxTime
    /\ now' = now + 1
    /\ UNCHANGED <<kvVars, request_counts_naive, request_counts_safe, request_counts_lock,
                   rate_limits, files, hpc, hreq, current_time, temp, admissions, peers, hresp>>

\* the cluster is not running beside the file server
InitKvOff ==
    /\ NODE_TYPE = [n \in Nodes |-> IF n = LeaderNode THEN "leader" ELSE "follower"]
    /\ WRITE_QUORUM = NumFollowers
    /\ FOLLOWERS = FollowerNodes
    /\ unreachable = {}
    /\ pc = [r \in Requests |-> "unused"]
    /\ InitStores

\* the file server with /f under ROOT_DIR
InitFile == InitKvOff /\ InitFileServer(ExistingPaths, ClientIPs, FileHandlers)

\* one client address, nothing under the requested paths: no request is counted
InitRate == InitKvOff /\ InitFileServer({}, {"10.0.0.1"}, RateHandlers)

\* the steps of a handler that finds nothing to count, and the clock
NextRate ==
    \/ \E h \in Handlers : Accept(h)
    \/ \E h \in Handlers : RateCheck(h)
    \/ \E h \in Handlers : Recv(h)
    \/ Tick

NextFile ==
    \/ NextRate
    \/ \E h \in Handlers : NaiveCheck(h)
    \/ \E h \in Handlers : NaiveInit(h)
    \/ \E h \in Handlers : NaiveRead(h)
    \/ \E h \in Handlers : NaiveWrite(h)
    \/ \E h \in Handlers : SafeBegin(h)
    \/ \E h \in Handlers : SafeRead(h)
    \/ \E h \in Handlers : SafeWrite(h)
    \/ \E h \in Handlers : Serve(h)

SpecFile == InitFile /\ [][NextFile]_vars

SpecRate == InitRate /\ [][NextRate]_vars

(* ---------------------------- vocabulary of the claims ----------------- *)
\* r is a POST /set that passed the role check and the body check
AcceptedSet(r) == req[r].op = "set" /\ SetCheck(req[r].node, req[r].body) = 0

\* the leader's own write of r is in its store and the lock is released
LeaderWrote(r) == AcceptedSet(r) /\ pc[r] \in {"set_written", "collect", "shutdown", "done"}

\* r has been answered by the leader's write path (200 or 500)
AnsweredSet(r) == req[r].op = "set" /\ pc[r] = "done" /\ resp[r].code \in {200, 500}

\* followers whose 200 the leader observed / followers that executed /replicate for r
Ackers(r) == {f \in FOLLOWERS : fut[r][f] = "true"}
Appliers(r) == {f \in FOLLOWERS : rpc[r][f] = "r200"}

(* ---------------------------- C1 --------------------------------------- *)
\* C1: whenever the leader has answered a /set with 200, at least WRITE_QUORUM
\* distinct followers have executed /replicate for that request and the leader
\* has observed their 200.
C1_QuorumSafety ==
    \A r \in Requests :
        (req[r].op = "set" /\ resp[r].code = 200) =>
            Cardinality(Ackers(r) \cap Appliers(r)) >= WRITE_QUORUM

C1_Witness ==
    \E r \in Requests :
        /\ req[r].op = "set" /\ resp[r].code = 200
        /\ WRITE_QUORUM = 2
        /\ \E f \in FOLLOWERS : fut[r][f] = "false"

(* ---------------------------- C2 --------------------------------------- *)
\* C2: with 1 <= WRITE_QUORUM <= N, a well-formed /set on the leader all of whose
\* followers answered 200 in time is answered 200 with replicas >= WRITE_QUORUM,
\* never 500.
C2_AllHealthySucceeds ==
    \A r \in Requests :
        ( /\ AcceptedSet(r) /\ pc[r] = "done"
          /\ WRITE_QUORUM >= 1 /\ WRITE_QUORUM <= Cardinality(FOLLOWERS)
          /\ \A f \in FOLLOWERS : fut[r][f] = "true" )
        => (resp[r].code = 200 /\ resp[r].replicas >= WRITE_QUORUM)

C2_Witness ==
    \E r \in Requests :
        /\ AcceptedSet(r) /\ pc[r] = "done" /\ resp[r].code = 200
        /\ WRITE_QUORUM = Cardinality(FOLLOWERS)
        /\ unreachable = {}
        /\ \A f \in FOLLOWERS : fut[r][f] = "true"

(* ---------------------------- C3 --------------------------------------- *)
\* C3: a /set is answered 500 exactly when all attempts have completed with fewer
\* than WRITE_QUORUM acknowledgments, and the count in the 500 is the number of
\* followers that acknowledged.
C3_QuorumFailure ==
    \A r \in Requests :
        /\ (req[r].op = "set" /\ resp[r].code = 500) => pc[r] = "done"
        /\ AnsweredSet(r) =>
            /\ \A f \in FOLLOWERS : Finished(fut[r][f])
            /\ resp[r].code = 500 <=> Cardinality(Ackers(r)) < WRITE_QUORUM
            /\ resp[r].code = 500 => resp[r].replicas = Cardinality(Ackers(r))

\* quorum = N with one follower down: the 500 reports N - 1
C3_Witness ==
    \E r \in Requests :
        /\ AnsweredSet(r) /\ resp[r].code = 500
        /\ WRITE_QUORUM = Cardinality(FOLLOWERS)
        /\ Cardinality(unreachable) = 1
        /\ resp[r].replicas = Cardinality(FOLLOWERS) - 1

(* ---------------------------- C4 --------------------------------------- *)
\* thread of request r is inside "with data_lock" of node n, about to write
Writing(r, n) ==
    \/ req[r].node = n /\ pc[r] \in {"set_locked", "replicate_locked"}
    \/ n \in FollowerNodes /\ rpc[r][n] = "locked"

\* request r2 has put its own pair under key k into the store of node n
WroteTo(r2, n, k) ==
    /\ req[r2].body.key = k
    /\ \/ LeaderWrote(r2) /\ req[r2].node = n
       \/ n \in FollowerNodes /\ rpc[r2][n] = "r200"
       \/ req[r2].op = "replicate" /\ req[r2].node = n /\ resp[r2].code = 200

\* node n holds the pair of the answered /set r, or the pair of another write to that key
StillHolds(r, n) ==
    LET k == req[r].body.key
    IN \/ data_store[n][k] = req[r].body.value
       \/ \E r2 \in Requests \ {r} :
              WroteTo(r2, n, k) /\ data_store[n][k] = req[r2].body.value

\* C4 (original): after a 500 the write stays on the leader and on the followers
\* that acknowledged, and every follower that did not acknowledge differs from the
\* leader for that key as long as no other request writes the key.
C4_StayDivergent ==
    \A r \in Requests :
        (AnsweredSet(r) /\ resp[r].code = 500
            /\ \A r2 \in Requests \ {r} : req[r2].body.key # req[r].body.key) =>
            /\ StillHolds(r, req[r].node)
            /\ \A f \in Ackers(r) : StillHolds(r, f)
            /\ \A f \in FOLLOWERS \ Ackers(r) :
                   data_store[f][req[r].body.key] # data_store[req[r].node][req[r].body.key]

\* C4 (amended): no rollback.  Every change of a store puts the pair of a request
\* whose thread is inside that node's lock (no undo, no compensating write); once
\* a /set is answered, 200 or 500, the leader and every follower that
\* acknowledged hold its pair until another request writes that key.  A follower
\* that did not acknowledge may hold the pair all the same.
C4_NoRollback ==
    [][/\ \A n \in Nodes : \A k \in Keys :
             data_store'[n][k] # data_store[n][k] =>
                 \E r \in Requests :
                     /\ Writing(r, n)
                     /\ req[r].body.key = k
                     /\ req[r].body.value = data_store'[n][k]
       /\ \A r \in Requests :
             (req'[r].op = "set" /\ pc'[r] = "done" /\ resp'[r].code \in {200, 500}) =>
                 /\ StillHolds(r, req[r].node)'
                 /\ \A f \in FOLLOWERS : fut'[r][f] = "true" => StillHolds(r, f)'
      ]_vars

\* a 500 whose write is on the leader, on the follower that acknowledged and on a
\* follower whose answer timed out
C4_Witness ==
    \E r \in Requests :
        /\ AnsweredSet(r) /\ resp[r].code = 500
        /\ data_store[LeaderNode][req[r].body.key] = req[r].body.value
        /\ \E f \in Ackers(r) : data_store[f][req[r].body.key] = req[r].body.value
        /\ \E f \in FOLLOWERS \ Ackers(r) :
               data_store[f][req[r].body.key] = req[r].body.value

(* ---------------------------- C5 --------------------------------------- *)
\* C5: for every /set, the leader's own write is in its store (and the lock
\* released) before any attempt of that request is submitted, posted or applied by
\* a follower.
C5_LeaderWritesFirst ==
    \A r \in Requests : \A f \in FollowerNodes :
        (fut[r][f] # "none" \/ rpc[r][f] # "none") =>
            /\ LeaderWrote(r)
            /\ data_lock[req[r].node] # <<r, 0>>
            /\ data_store[req[r].node][req[r].body.key] # Absent

C5_Witness ==
    \E r \in Requests : \E f \in FOLLOWERS :
        /\ rpc[r][f] = "r200"
        /\ data_store[f][req[r].body.key] = req[r].body.value
        /\ data_store[LeaderNode][req[r].body.key] = req[r].body.value

(* ---------------------------- C6 --------------------------------------- *)
\* C6: replicate_to_followers returns as soon as the loop over the completed
\* futures has ended (the WRITE_QUORUM-th acknowledgment, or the last future):
\* from then on the leader can answer, whatever the other attempts are doing.
C6_EarlyReturn ==
    \A r \in Requests : pc[r] = "shutdown" => ENABLED SetRespond(r)

(* ---------------------------- C7 --------------------------------------- *)
\* C7: no attempt is cancelled: once the leader has applied a /set, every
\* reachable follower eventually executes /replicate for it, also the followers
\* whose acknowledgment comes after the quorum was reached or is never observed.
C7_NoCancellation ==
    \A r \in Requests : \A f \in FollowerNodes :
        (LeaderWrote(r) /\ f \in FOLLOWERS \ unreachable) ~> (rpc[r][f] = "r200")

\* quorum 1 reached with the first acknowledgment, yet all three followers applied
C7_Witness ==
    \E r \in Requests :
        /\ AnsweredSet(r) /\ resp[r].code = 200 /\ WRITE_QUORUM = 1
        /\ Cardinality(seen[r]) = 1
        /\ unreachable = {}
        /\ \A f \in FOLLOWERS : data_store[f][req[r].body.key] = req[r].body.value

(* ---------------------------- C8 --------------------------------------- *)
\* C8: a failed attempt fails alone: in an answered /set with a failed attempt,
\* every follower has been attempted, every reachable follower got its RPC, and
\* the acknowledgments of the others decide the outcome: 200 iff there are at
\* least WRITE_QUORUM of them, and a 500 reports all of them.
C8_FailureIsolation ==
    \A r \in Requests :
        (AnsweredSet(r) /\ \E f \in FOLLOWERS : fut[r][f] = "false") =>
            /\ \A g \in FOLLOWERS : Finished(fut[r][g])
            /\ \A g \in FOLLOWERS \ unreachable : rpc[r][g] # "none"
            /\ Cardinality(Ackers(r)) >= WRITE_QUORUM => resp[r].code = 200
            /\ Cardinality(Ackers(r)) < WRITE_QUORUM =>
                   resp[r].replicas = Cardinality(Ackers(r))

\* one follower down, one timed out, the third acknowledges and is counted
C8_Witness ==
    \E r \in Requests :
        /\ AnsweredSet(r) /\ resp[r].code = 200 /\ WRITE_QUORUM = 1
        /\ \E f \in unreachable : fut[r][f] = "false"
        /\ \E f \in FOLLOWERS \ unreachable : fut[r][f] = "false"
        /\ \E f \in FOLLOWERS : fut[r][f] = "true"

(* ---------------------------- C9 --------------------------------------- *)
\* C9: within one fan-out each follower is attempted once: a future is submitted
\* once, a finished future keeps its result, /replicate is posted at most once
\* per follower, and when the /set is answered every follower has been attempted.
C9_OneAttemptEach ==
    [][\A r \in Requests :
          /\ \A f \in FollowerNodes :
                /\ fut'[r][f] = "sleep" => fut[r][f] \in {"none", "sleep"}
                /\ Finished(fut[r][f]) => fut'[r][f] = fut[r][f]
                /\ rpc'[r][f] = "req" => rpc[r][f] \in {"none", "req"}
                /\ fut'[r][f] # "none" => f \in FOLLOWERS
          /\ (req'[r].op = "set" /\ pc'[r] = "done" /\ resp'[r].code \in {200, 500}) =>
                \A f \in FOLLOWERS : Finished(fut'[r][f])
      ]_vars

\* an attempt that timed out stays failed while the request is answered
C9_Witness ==
    \E r \in Requests : \E f \in FOLLOWERS \ unreachable :
        /\ AnsweredSet(r)
        /\ fut[r][f] = "false"
        /\ rpc[r][f] = "r200"

(* ---------------------------- C10 -------------------------------------- *)
\* C10: a POST /set handled by a node that is not the leader is answered 403 at
\* once, whatever its body, changes no store and submits no replication attempt.
C10_SetOnFollowerRejected ==
    [][\A r \in Requests :
          (req'[r].op = "set" /\ NODE_TYPE[req'[r].node] # "leader") =>
              /\ pc'[r] = "done"
              /\ resp'[r].code = 403
              /\ \A f \in FollowerNodes : fut'[r][f] = "none" /\ rpc'[r][f] = "none"
              /\ pc[r] = "idle" => (data_store' = data_store /\ fut' = fut /\ rpc' = rpc)
      ]_vars

C10_Witness ==
    \E r \in Requests :
        /\ req[r].op = "set" /\ req[r].node \in FOLLOWERS
        /\ ~Malformed(req[r].body)
        /\ resp[r].code = 403
        /\ data_store[req[r].node] = EmptyStore

(* ---------------------------- C11 -------------------------------------- *)
\* C11: a POST /replicate handled by a leader-role node is answered 403 at once,
\* whatever its body, and changes no store; the store of a leader-role node
\* changes only under the thread of a /set request that this node accepted.
C11_ReplicateOnLeaderRejected ==
    [][/\ \A r \in Requests :
             (req'[r].op = "replicate" /\ NODE_TYPE[req'[r].node] = "leader") =>
                 /\ pc'[r] = "done"
                 /\ resp'[r].code = 403
                 /\ pc[r] = "idle" => data_store' = data_store
       /\ \A n \in Nodes :
             (NODE_TYPE[n] = "leader" /\ data_store'[n] # data_store[n]) =>
                 \E r \in Requests :
                     /\ req[r].op = "set" /\ req[r].node = n /\ pc[r] = "set_locked"
                     /\ data_store'[n] = Put(data_store[n], req[r].body.key, req[r].body.value)
      ]_vars

C11_Witness ==
    \E r \in Requests :
        /\ req[r].op = "replicate" /\ req[r].node = LeaderNode
        /\ ~Malformed(req[r].body)
        /\ resp[r].code = 403
        /\ data_store[LeaderNode] = EmptyStore

(* ---------------------------- C12 -------------------------------------- *)
\* C12: a /set on the leader or a /replicate on a follower whose body is empty or
\* lacks the key field or the value field is answered 400 in the step that reads
\* it: no store changes, the lock is not taken and no attempt is submitted.
C12_MalformedRejected ==
    [][\A r \in Requests :
          ( /\ \/ req'[r].op = "set" /\ NODE_TYPE[req'[r].node] = "leader"
               \/ req'[r].op = "replicate" /\ NODE_TYPE[req'[r].node] = "follower"
            /\ req'[r].body.key = Absent \/ req'[r].body.value = Absent ) =>
              /\ pc'[r] = "done"
              /\ resp'[r].code = 400
              /\ \A f \in FollowerNodes : fut'[r][f] = "none" /\ rpc'[r][f] = "none"
              /\ pc[r] = "idle" =>
                     (data_store' = data_store /\ data_lock' = data_lock /\ fut' = fut /\ rpc' = rpc)
      ]_vars

\* a /set that has a key but no value
C12_Witness ==
    \E r \in Requests :
        /\ req[r].op = "set" /\ req[r].node = LeaderNode
        /\ req[r].body.key = "a" /\ req[r].body.value = Absent
        /\ resp[r].code = 400
        /\ data_store[LeaderNode] = EmptyStore

(* ---------------------------- C13 -------------------------------------- *)
Stores == [Keys -> Values \cup {Absent}]

\* C13: /replicate on a follower is idempotent.  Writing a pair into any store
\* twice gives the store that writing it once gives; and when a follower executes
\* /replicate(key, value) a second time, on the store the first execution left,
\* no store changes and both executions are answered 200.
C13_ReplicateIdempotent ==
    [][/\ \A s \in Stores : \A k \in Keys : \A v \in Values :
             Put(Put(s, k, v), k, v) = Put(s, k, v)
       /\ \A r \in Requests : \A r2 \in Requests \ {r} :
             ( /\ req[r].op = "replicate" /\ req[r2] = req[r]
               /\ pc[r2] = "done" /\ resp[r2].code = 200
               /\ pc[r] = "replicate_locked" /\ pc'[r] = "done"
               /\ data_store[req[r].node][req[r].body.key] = req[r].body.value ) =>
                 /\ resp'[r].code = 200
                 /\ data_store' = data_store
      ]_vars

\* the same /replicate answered 200 twice; the follower's store is what one gives
C13_Witness ==
    \E r \in Requests : \E r2 \in Requests \ {r} :
        /\ req[r].op = "replicate" /\ req[r2] = req[r]
        /\ req[r].node \in FOLLOWERS
        /\ resp[r].code = 200 /\ resp[r2].code = 200
        /\ data_store[req[r].node] = Put(EmptyStore, req[r].body.key, req[r].body.value)

(* ---------------------------- C14, C15 --------------------------------- *)
\* every client request issued so far is answered and no /replicate is under way
Settled ==
    /\ \A r \in Requests : pc[r] \in {"idle", "unused", "done"}
    /\ \A r \in Requests : \A f \in FollowerNodes : rpc[r][f] \notin {"req", "locked"}

\* no replication attempt has failed; only the leader has sent /replicate
ZeroFailure == \A r \in Requests : \A f \in FollowerNodes : fut[r][f] # "false"
OnlyLeaderReplicates == \A r \in Requests : req[r].op # "replicate"

KeysOf(store) == {k \in Keys : store[k] # Absent}

\* C14: with no failed attempt (and /replicate sent by the leader only), once all
\* requests are answered and all attempts completed, every follower's store has
\* exactly the keys of the leader's store.
C14_KeySetConvergence ==
    (Settled /\ ZeroFailure /\ OnlyLeaderReplicates) =>
        \A f \in FOLLOWERS : KeysOf(data_store[f]) = KeysOf(data_store[LeaderNode])

\* two answered writes on two keys, both keys on every node
C14_Witness ==
    /\ Settled /\ ZeroFailure /\ OnlyLeaderReplicates
    /\ \A r \in Requests : AnsweredSet(r)
    /\ \A n \in Cluster : KeysOf(data_store[n]) = Keys

\* C15: with no failed attempt and no further writes, once all attempts have
\* completed every follower's store is identical to the leader's, values
\* included, also after concurrent /set requests on the same key.
C15_FullConvergence ==
    (Settled /\ ZeroFailure /\ OnlyLeaderReplicates) =>
        \A f \in FOLLOWERS : data_store[f] = data_store[LeaderNode]

(* ---------------------------- C16 -------------------------------------- *)
\* C16: after concurrent well-formed /set requests on distinct keys have all been
\* answered, the leader's store holds every one of the keys with the value its
\* request wrote.
C16_NoLostWrite ==
    \A r \in Requests : \A r2 \in Requests \ {r} :
        (AnsweredSet(r) /\ AnsweredSet(r2) /\ req[r].body.key # req[r2].body.key) =>
            data_store[req[r].node][req[r].body.key] = req[r].body.value

\* two answered writes on the two keys, both pairs in the leader's store
C16_Witness ==
    \E r \in Requests : \E r2 \in Requests \ {r} :
        /\ AnsweredSet(r) /\ AnsweredSet(r2) /\ req[r].body.key # req[r2].body.key
        /\ data_store[LeaderNode][req[r].body.key] = req[r].body.value
        /\ data_store[LeaderNode][req[r2].body.key] = req[r2].body.value

(* ---------------------------- C17 -------------------------------------- *)
\* C17: GET /get/<key> on any node answers 200 with the value its store holds under
\* the key when the key is present, and 404 without a value when it is absent; a
\* node whose store is still empty answers 404 to every GET.
C17_GetReturnsStoreValue ==
    [][\A r \in Requests :
          (req[r].op = "get" /\ pc[r] = "get_locked" /\ pc'[r] = "done") =>
              LET cur == data_store[req[r].node][req[r].body.key]
              IN /\ cur # Absent => (resp'[r].code = 200 /\ resp'[r].value = cur)
                 /\ cur = Absent => (resp'[r].code = 404 /\ resp'[r].value = Absent)
                 /\ data_store[req[r].node] = EmptyStore => resp'[r].code = 404
      ]_vars

\* a GET on a follower answered 200 with the value a replicated write left there
C17_Witness ==
    \E r \in Requests : \E s \in Requests \ {r} :
        /\ req[r].op = "get" /\ req[r].node \in FOLLOWERS /\ pc[r] = "done"
        /\ rpc[s][req[r].node] = "r200" /\ req[s].body.key = req[r].body.key
        /\ resp[r].code = 200
        /\ resp[r].value = req[s].body.value

(* ---------------------------- C18 -------------------------------------- *)
\* C18: read-your-writes on the leader: once a /set of (key, value) has been answered
\* with 200 or with 500, a GET of that key on the leader answers 200 with value, as
\* long as no other request has written the key on the leader.
C18_ReadYourWrites ==
    [][\A g \in Requests : \A s \in Requests \ {g} :
          ( /\ req[g].op = "get" /\ pc[g] = "get_locked" /\ pc'[g] = "done"
            /\ AnsweredSet(s)
            /\ req[g].node = req[s].node /\ req[g].body.key = req[s].body.key
            /\ \A s2 \in Requests \ {g, s} : ~WroteTo(s2, req[s].node, req[s].body.key) ) =>
                /\ resp'[g].code = 200
                /\ resp'[g].value = req[s].body.value
      ]_vars

\* a /set answered 500, then a GET of its key on the leader answered with its value
C18_Witness ==
    \E g \in Requests : \E s \in Requests \ {g} :
        /\ AnsweredSet(s) /\ resp[s].code = 500
        /\ req[g].op = "get" /\ pc[g] = "done"
        /\ req[g].node = req[s].node /\ req[g].body.key = req[s].body.key
        /\ resp[g].code = 200 /\ resp[g].value = req[s].body.value

(* ---------------------------- C19 -------------------------------------- *)
\* C19: every step of a GET /get or GET /status request leaves every node's store
\* unchanged and sends nothing to another node, and the answer is built from the
\* store of the node that received the request, whatever the leader's store holds.
C19_LocalReads ==
    [][\A r \in Requests :
          (req'[r].op \in {"get", "status"} /\ pc'[r] # pc[r]) =>
              /\ data_store' = data_store
              /\ fut' = fut /\ rpc' = rpc
              /\ fut[r] = [f \in FollowerNodes |-> "none"]
              /\ (req[r].op = "get" /\ pc'[r] = "done") =>
                    /\ (resp'[r].code = 404) = (data_store[req[r].node][req[r].body.key] = Absent)
                    /\ resp'[r].value = data_store[req[r].node][req[r].body.key]
              /\ (req[r].op = "status" /\ pc'[r] = "done") =>
                    /\ resp'[r].data = data_store[req[r].node]
                    /\ resp'[r].data_count = Cardinality(KeysOf(data_store[req[r].node]))
      ]_vars

\* a follower answered 404 for a key the leader holds and the follower does not
C19_Witness ==
    \E r \in Requests :
        /\ req[r].op = "get" /\ req[r].node \in FOLLOWERS /\ pc[r] = "done"
        /\ resp[r].code = 404
        /\ data_store[req[r].node][req[r].body.key] = Absent
        /\ data_store[LeaderNode][req[r].body.key] # Absent

(* ---------------------------- C20 -------------------------------------- *)
\* C20: the role of every node is the one it was started with: no step of any
\* request, replication attempt or answer changes NODE_TYPE.
C20_RoleFixed ==
    [][NODE_TYPE' = NODE_TYPE]_vars

\* a /set that missed its quorum has been answered and the leader is still the leader
C20_Witness ==
    \E r \in Requests :
        /\ AnsweredSet(r) /\ resp[r].code = 500
        /\ NODE_TYPE[req[r].node] = "leader"
        /\ \A f \in FOLLOWERS : NODE_TYPE[f] = "follower"

(* ---------------------------- C21 -------------------------------------- *)
\* C21: every replication attempt and every /replicate message belongs to a /set
\* that a leader-role node accepted and wrote; a request handled by a follower-role
\* node, /set or /replicate, never gives rise to one.
C21_FollowerNeverReplicates ==
    \A r \in Requests : \A f \in FollowerNodes :
        (fut[r][f] # "none" \/ rpc[r][f] # "none") =>
            /\ req[r].op = "set"
            /\ NODE_TYPE[req[r].node] = "leader"
            /\ LeaderWrote(r)

\* a /replicate applied by a follower and a /set refused by a follower, and no
\* replication attempt or message anywhere
C21_Witness ==
    \E r \in Requests : \E r2 \in Requests \ {r} :
        /\ req[r].op = "replicate" /\ req[r].node \in FOLLOWERS /\ resp[r].code = 200
        /\ req[r2].op = "set" /\ req[r2].node \in FOLLOWERS /\ resp[r2].code = 403
        /\ \A q \in Requests : \A f \in FollowerNodes :
              fut[q][f] = "none" /\ rpc[q][f] = "none"

(* ---------------------------- C22 -------------------------------------- *)
\* the handler thread of request r is inside "with data_lock" on its node
HoldsLock(r) == data_lock[req[r].node] = <<r, 0>>

\* some replication attempt of request r is in its delay or inside requests.post
InFanout(r) == \E f \in FollowerNodes : fut[r][f] \in {"sleep", "wait"}

\* C22: no thread holds data_lock during the delay or during a /replicate call: the
\* handler of a /set holds the leader's lock only around its own write, and from
\* the call of replicate_to_followers until its answer the lock is not its own, so
\* another request can take the leader's lock while attempts are outstanding.
C22_NoLockAcrossNetwork ==
    /\ \A r \in Requests :
          HoldsLock(r) =>
              /\ ~InFanout(r)
              /\ pc[r] \notin {"idle", "unused", "set_written", "collect", "shutdown", "done"}
    /\ \A n \in Nodes : \A r \in Requests : \A f \in FollowerNodes :
          data_lock[n] = <<r, f>> => (n = f /\ rpc[r][f] = "locked" /\ fut[r][f] # "sleep")

\* an attempt of one /set is waiting for its follower while another request is
\* inside the leader's critical section
C22_Witness ==
    \E r \in Requests : \E r2 \in Requests \ {r} : \E f \in FOLLOWERS :
        /\ fut[r][f] = "wait" /\ rpc[r][f] = "req"
        /\ req[r2].node = req[r].node /\ HoldsLock(r2)

(* ---------------------------- C23 -------------------------------------- *)
\* the threads that are inside a critical section on the store of node n
InCritical(n) ==
    {<<r, 0>> : r \in {q \in Requests :
                         /\ req[q].node = n
                         /\ pc[q] \in {"set_locked", "replicate_locked", "get_locked",
                                       "status_locked", "status_counted"}}}
    \cup {<<r, n>> : r \in {q \in Requests : n \in FollowerNodes /\ rpc[q][n] = "locked"}}

\* C23: on every node at most one handler thread is inside a critical section of
\* the store, and it is the thread that holds data_lock; every answered /status
\* reports a data_count equal to the number of entries of the data it returns.
C23_MutualExclusion ==
    /\ \A n \in Nodes :
          InCritical(n) = IF data_lock[n] = NoThread THEN {} ELSE {data_lock[n]}
    /\ \A r \in Requests :
          (req[r].op = "status" /\ pc[r] = "done") =>
              resp[r].data_count = Cardinality(KeysOf(resp[r].data))

\* a /status on the leader answered with one entry while a /set that wrote the
\* leader's store is still replicating
C23_Witness ==
    \E r \in Requests : \E s \in Requests \ {r} :
        /\ req[r].op = "status" /\ pc[r] = "done" /\ req[r].node = req[s].node
        /\ LeaderWrote(s) /\ pc[s] = "collect"
        /\ resp[r].data_count = 1
        /\ resp[r].data = Put(EmptyStore, req[s].body.key, req[s].body.value)

(* ---------------------------- C24 -------------------------------------- *)
\* C24: every /set the leader accepted is eventually answered, with 200 or 500,
\* whichever followers are unreachable; and it is answered only after
\* replicate_to_followers has returned: every attempt has ended, the loop has seen
\* a quorum or all attempts, and the answer carries the count the loop returned.
C24_SetAlwaysAnswered ==
    /\ \A r \in Requests : AcceptedSet(r) ~> AnsweredSet(r)
    /\ [](\A r \in Requests :
            AnsweredSet(r) =>
                /\ \A f \in FOLLOWERS : Finished(fut[r][f])
                /\ seen[r] = FOLLOWERS \/ success_count[r] >= WRITE_QUORUM
                /\ resp[r].replicas = success_count[r])

\* no follower is reachable and the /set has been answered 500 with no replica
C24_Witness ==
    \E r \in Requests :
        /\ unreachable = FOLLOWERS
        /\ AnsweredSet(r) /\ resp[r].code = 500 /\ resp[r].replicas = 0
        /\ seen[r] = FOLLOWERS

(* ---------------------------- C25 -------------------------------------- *)
\* C25: the answer of a /set depends only on which followers acknowledged and on
\* WRITE_QUORUM, not on the order in which the attempts started or completed: it is
\* 200 exactly when at least WRITE_QUORUM followers acknowledged, and its count is
\* the number of acknowledgments, cut off at the quorum (at 1 for a quorum of 0).
C25_OrderIndependence ==
    \A r \in Requests :
        AnsweredSet(r) =>
            LET acks == Cardinality(Ackers(r))
                cut == IF WRITE_QUORUM = 0 THEN 1 ELSE WRITE_QUORUM
                count == IF acks < cut THEN acks ELSE cut
            IN /\ success_count[r] = count
               /\ resp[r].code = IF acks >= WRITE_QUORUM THEN 200 ELSE 500
               /\ resp[r].replicas = count

\* a failed attempt was collected first, then the quorum was met, and one
\* acknowledgment was never looked at
C25_Witness ==
    \E r \in Requests :
        /\ AnsweredSet(r) /\ resp[r].code = 200
        /\ \E f \in seen[r] : fut[r][f] = "false"
        /\ \E g \in FOLLOWERS \ seen[r] : fut[r][g] = "true"

(* ---------------------------- C26 -------------------------------------- *)
\* C26: no step removes a key from any node's store; a step that changes a store
\* assigns one pair, and it is the write of a /set on a leader-role node or of a
\* /replicate on a follower-role node, carrying the pair of that request.
C26_NoDeletion ==
    [][\A n \in Nodes :
          /\ \A k \in Keys : data_store[n][k] # Absent => data_store'[n][k] # Absent
          /\ data_store'[n] # data_store[n] =>
                \E r \in Requests :
                    /\ data_store'[n] = Put(data_store[n], req[r].body.key, req[r].body.value)
                    /\ req[r].body.value \in Values
                    /\ \/ /\ NODE_TYPE[n] = "leader"
                          /\ req[r].op = "set" /\ req[r].node = n
                          /\ pc[r] = "set_locked" /\ pc'[r] = "set_written"
                       \/ /\ NODE_TYPE[n] = "follower"
                          /\ \/ /\ req[r].op = "replicate" /\ req[r].node = n
                                /\ pc[r] = "replicate_locked" /\ pc'[r] = "done"
                             \/ /\ req[r].op = "set" /\ n \in FollowerNodes
                                /\ rpc[r][n] = "locked" /\ rpc'[r][n] = "r200"
      ]_vars

\* two /set requests wrote the same key with different values: the leader holds
\* the key with the later value, overwritten in place
C26_Witness ==
    \E r \in Requests : \E r2 \in Requests \ {r} :
        /\ LeaderWrote(r) /\ LeaderWrote(r2)
        /\ req[r].body.key = req[r2].body.key /\ req[r].body.value # req[r2].body.value
        /\ data_store[LeaderNode][req[r].body.key] = req[r2].body.value
        /\ StoreLen(data_store[LeaderNode]) = 1

(* ---------------------------- C27 -------------------------------------- *)
\* C27: a /set on the leader whose key is the empty string is answered 400 and is
\* neither stored nor replicated, so the leader's store never has the empty key.
C27_NonEmptyKeys ==
    /\ \A r \in Requests :
          (req[r].op = "set" /\ NODE_TYPE[req[r].node] = "leader" /\ req[r].body.key = "") =>
              /\ pc[r] = "done" /\ resp[r].code = 400
              /\ \A f \in FollowerNodes : fut[r][f] = "none" /\ rpc[r][f] = "none"
    /\ \A n \in Nodes : NODE_TYPE[n] = "leader" => data_store[n][""] = Absent

(* ---------------------------- C28 -------------------------------------- *)
\* C28: as long as no client sends /replicate, every key a follower holds is a key
\* of the leader's store, and every value a follower holds under a key is the value
\* of a /set that had written that pair to the leader's store before.
C28_FollowerSubsetOfLeader ==
    OnlyLeaderReplicates =>
        \A f \in FOLLOWERS : \A k \in KeysOf(data_store[f]) :
            /\ k \in KeysOf(data_store[LeaderNode])
            /\ \E r \in Requests :
                  /\ LeaderWrote(r) /\ req[r].node = LeaderNode
                  /\ req[r].body.key = k /\ req[r].body.value = data_store[f][k]

\* a follower holds the value of the earlier of two writes to a key, the leader
\* already the later one
C28_Witness ==
    /\ OnlyLeaderReplicates
    /\ \E f \in FOLLOWERS : \E k \in KeysOf(data_store[f]) :
          /\ data_store[LeaderNode][k] # Absent
          /\ data_store[LeaderNode][k] # data_store[f][k]
          /\ \E r \in Requests : LeaderWrote(r) /\ req[r].body = [key |-> k, value |-> data_store[f][k]]

(* ---------------------------- C29 -------------------------------------- *)
\* C29: with WRITE_QUORUM >= 1, a /set answered 200 reports replicas equal to
\* WRITE_QUORUM, also when more followers than that acknowledged: the loop stops
\* counting at the acknowledgment that completes the quorum.
C29_ReplicasIsQuorum ==
    \A r \in Requests :
        (AnsweredSet(r) /\ resp[r].code = 200 /\ WRITE_QUORUM >= 1) =>
            /\ resp[r].replicas = WRITE_QUORUM
            /\ Cardinality({f \in seen[r] : fut[r][f] = "true"}) = WRITE_QUORUM

\* quorum 1, all three followers acknowledged, the answer reports one replica
C29_Witness ==
    \E r \in Requests :
        /\ WRITE_QUORUM = 1 /\ Ackers(r) = FOLLOWERS /\ Cardinality(FOLLOWERS) > 1
        /\ AnsweredSet(r) /\ resp[r].code = 200 /\ resp[r].replicas = 1

(* ---------------------------- C30 -------------------------------------- *)
\* C30: the role is checked before the body: a /set with a malformed body on a node
\* that is not the leader is answered 403, a /replicate with a malformed body on a
\* node that is not a follower is answered 403, and a 400 is only ever given by a
\* node of the right role.
C30_RoleBeforeBody ==
    \A r \in Requests :
        /\ (req[r].op = "set" /\ Malformed(req[r].body) /\ NODE_TYPE[req[r].node] # "leader") =>
              (pc[r] = "done" /\ resp[r].code = 403)
        /\ (req[r].op = "replicate" /\ Malformed(req[r].body)
               /\ NODE_TYPE[req[r].node] # "follower") =>
              (pc[r] = "done" /\ resp[r].code = 403)
        /\ (resp[r].code = 400) =>
              NODE_TYPE[req[r].node] = (IF req[r].op = "set" THEN "leader" ELSE "follower")

\* a /set without a key, sent to a follower, answered 403
C30_Witness ==
    \E r \in Requests :
        /\ req[r].op = "set" /\ req[r].node \in FOLLOWERS
        /\ req[r].body.key = Absent
        /\ pc[r] = "done" /\ resp[r].code = 403

(* ---------------------------- C31 -------------------------------------- *)
\* C31: an attempt is an acknowledgment only if the node at the follower address
\* answered /replicate with 200: an address that answered 403 or 400 gives a failed
\* attempt, like a timeout, and the count of a /set never exceeds the number of
\* collected attempts that were answered 200.
C31_OnlyStatus200Acks ==
    /\ \A status \in {"r200", "r400", "r403"} : (Acked(status) = "true") = (status = "r200")
    /\ \A r \in Requests : \A f \in FollowerNodes :
          /\ fut[r][f] = "true" => rpc[r][f] = "r200"
          /\ (rpc[r][f] \in {"r400", "r403"} /\ Finished(fut[r][f])) => fut[r][f] = "false"
    /\ \A r \in Requests :
          success_count[r] <= Cardinality({f \in seen[r] : rpc[r][f] = "r200"})

\* one address answered 403 and was collected as a failure, another answered 200,
\* and the /set was answered with a count of one
C31_Witness ==
    \E r \in Requests : \E f \in seen[r] : \E g \in seen[r] :
        /\ NODE_TYPE[f] = "leader" /\ rpc[r][f] = "r403" /\ fut[r][f] = "false"
        /\ rpc[r][g] = "r200" /\ fut[r][g] = "true"
        /\ AnsweredSet(r) /\ resp[r].replicas = 1

(* ---------------------------- C32 -------------------------------------- *)
\* C32: with WRITE_QUORUM larger than the number of followers no /set is answered
\* 200: every answered well-formed /set on the leader got 500, after its pair was
\* written to the leader's store and after every one of the N attempts had ended and
\* been collected.
C32_QuorumAboveFollowers ==
    WRITE_QUORUM > Cardinality(FOLLOWERS) =>
        \A r \in Requests :
            /\ (req[r].op = "set" /\ pc[r] = "done") => resp[r].code # 200
            /\ AnsweredSet(r) =>
                  /\ resp[r].code = 500
                  /\ data_store[req[r].node][req[r].body.key] = req[r].body.value
                  /\ seen[r] = FOLLOWERS
                  /\ \A f \in FOLLOWERS : Finished(fut[r][f])
                  /\ resp[r].replicas = Cardinality(Ackers(r))

\* quorum N + 1: all N followers acknowledged and applied, the answer is 500
C32_Witness ==
    \E r \in Requests :
        /\ WRITE_QUORUM = Cardinality(FOLLOWERS) + 1
        /\ AnsweredSet(r) /\ resp[r].code = 500
        /\ Ackers(r) = FOLLOWERS /\ resp[r].replicas = Cardinality(FOLLOWERS)
        /\ \A n \in Cluster : data_store[n][req[r].body.key] = req[r].body.value

(* ---------------------------- file server: vocabulary ------------------ *)
\* every accepted connection has been handled to the end
AllFinished == \A h \in Handlers : hpc[h] \in {"unused", "done"}

\* the handlers whose request is for the existing path p: they reach the counters
Counted(p) == {h \in Handlers : hreq[h].line # "" /\ PathOf(hreq[h].line) = p /\ p \in files}

\* what the directory listing shows: request_counts_*.get(path, 0)
Shown(counts, p) == IF counts[p] = NoCount THEN 0 ELSE counts[p]

(* ---------------------------- C33 -------------------------------------- *)
\* C33: at every moment request_counts_safe[path] is the number of handlers that
\* have left the locked increment for that path, and once all handlers have finished
\* it is the number of requests for that existing path that were let through.
C33_SafeCounterExact ==
    \A p \in ExistingPaths :
        /\ Shown(request_counts_safe, p) =
              Cardinality({h \in Counted(p) : hpc[h] \in {"serve", "done"}})
        /\ AllFinished => Shown(request_counts_safe, p) = Cardinality(Counted(p))

\* three requests for /f handled to the end: the safe count is 3 although the
\* naive count lost two of them
C33_Witness ==
    /\ AllFinished
    /\ Cardinality(Counted("/f")) = FileHandlers
    /\ request_counts_safe["/f"] = FileHandlers
    /\ request_counts_naive["/f"] = 1

(* ---------------------------- C34 -------------------------------------- *)
\* C34: once all handlers have finished, the naive count of a path is at least 1 if
\* the path was requested and never larger than the safe count; it can be smaller:
\* two requests for one path can leave naive = 1 beside safe = 2.
C34_NaiveNeverAboveSafe ==
    AllFinished =>
        \A p \in ExistingPaths :
            /\ Shown(request_counts_naive, p) <= Shown(request_counts_safe, p)
            /\ Counted(p) # {} => Shown(request_counts_naive, p) >= 1

\* exactly two requests for /f, both handled: naive is 1, safe is 2
C34_Witness ==
    /\ AllFinished
    /\ Cardinality(Counted("/f")) = 2
    /\ request_counts_naive["/f"] = 1
    /\ request_counts_safe["/f"] = 2

(* ---------------------------- C35 -------------------------------------- *)
\* the requests of client ip that were let through during the WINDOW_SECONDS
\* seconds that start at second t
RECURSIVE AdmittedIn(_, _, _)
AdmittedIn(ip, t, len) ==
    IF len = 0 \/ t > MaxTime THEN 0
    ELSE admissions[ip][t] + AdmittedIn(ip, t + 1, len - 1)

\* C35: for every client address and every window of WINDOW_SECONDS at most
\* RATE_LIMIT requests are let through, whatever the interleaving; a refused
\* request got 429 and nothing else happened for it: no timestamp was recorded, its
\* request was not read and no counter was touched.
C35_RateLimit ==
    /\ \A ip \in ClientIPs : \A t \in 0 .. MaxTime :
          AdmittedIn(ip, t, WINDOW_SECONDS) <= RATE_LIMIT
    /\ \A ip \in ClientIPs :
          Len(rate_limits[ip]) <=
              Cardinality({h \in Handlers : hreq[h].ip = ip /\ hpc[h] \notin {"idle", "unused", "timed"}
                                               /\ hresp[h] # 429})
    /\ \A h \in Handlers :
          hresp[h] = 429 => (hpc[h] = "done" /\ hreq[h].line = "" /\ h \notin Counted("/f"))

====
